---- MODULE Spec2Model ----
(***************************************************************************)
(* A model of the zmp_openapi SDK: the payload codec and file encoder of   *)
(* models.py, the blocking client of client.py, the non-blocking client of *)
(* async_client.py and the low-level functions of openapi.py.              *)
(*                                                                         *)
(* Python values are tagged records ([t |-> "str", v |-> "abc"]), a dict   *)
(* is a function from its keys to values, and the outcome of a call is     *)
(* either Return(value) or a raised exception.  The remote service and the *)
(* HTTP libraries are the environment: each call that reaches the network  *)
(* receives one response drawn from Responses.                             *)
(***************************************************************************)
EXTENDS Integers, Sequences, FiniteSets, TLC

(***************************************************************************)
(* Bounds of the model.                                                    *)
(***************************************************************************)
\* the transport spy counts at most this many requests
MaxRequests == 2

(***************************************************************************)
(* Python values.                                                          *)
(***************************************************************************)
PyNone == [t |-> "None"]
PyStr(s) == [t |-> "str", v |-> s]
PyInt(i) == [t |-> "int", v |-> i]
PyBool(b) == [t |-> "bool", v |-> b]
PyBytes(b) == [t |-> "bytes", v |-> b]
PyPath(p) == [t |-> "Path", v |-> p]
PyList(l) == [t |-> "list", v |-> l]
PyDict(d) == [t |-> "dict", v |-> d]
\* a str built by an f-string or a decode: the sequence of its pieces
PyText(parts) == [t |-> "str", parts |-> parts]
\* an instance of a pydantic class: internal field name -> value
PyModel(c, f) == [t |-> "model", cls |-> c, f |-> f]

\* Python truthiness, as `not x` and `if x:` use it; a pydantic model
\* defines neither __bool__ nor __len__ and is always true
Truthy(x) ==
    CASE x.t = "None" -> FALSE
      [] x.t = "str" -> x # PyStr("") /\ x # PyText(<<>>)
      [] x.t = "int" -> x.v # 0
      [] x.t = "bool" -> x.v
      [] x.t = "bytes" -> x.v # <<>>
      [] x.t = "list" -> x.v # <<>>
      [] x.t = "dict" -> DOMAIN x.v # {}
      [] OTHER -> TRUE

\* a formatting that leaves None out of the text
PyFormat_blank(x) ==
    CASE x.t = "None" -> ""
      [] x.t = "str" -> IF "v" \in DOMAIN x THEN x.v ELSE "<text>"
      [] x.t = "int" -> ToString(x.v)
      [] x.t = "bool" -> IF x.v THEN "True" ELSE "False"
      [] OTHER -> "<object>"

\* str(x) as an f-string field formats it
PyFormat(x) ==
    CASE x.t = "None" -> "None"
      [] x.t = "str" -> IF "v" \in DOMAIN x THEN x.v ELSE "<text>"
      [] x.t = "int" -> ToString(x.v)
      [] x.t = "bool" -> IF x.v THEN "True" ELSE "False"
      [] OTHER -> "<object>"

\* the outcome of a call
Return(v) == [kind |-> "return", value |-> v]
Raise(e) == [kind |-> "raise", exc |-> e]
RaiseStatus(e, s) == [kind |-> "raise", exc |-> e, status |-> s]

(***************************************************************************)
(* constants.py                                                            *)
(***************************************************************************)
DOMAIN_PROD == "https://openapi.mini.zalo.me"
DOMAIN_DEV == "http://10.30.80.237:9065"
APPS == "/apps"
\* an upload path in the plural
UPLOAD_plural == "/uploads"

UPLOAD == "/upload"
VERSIONS == "/versions"
REQUEST_PUBLISH == "/request-publish"
PUBLISH == "/publish"

(***************************************************************************)
(* models.py: the request classes.  AliasOf is the rename table of the     *)
(* Field(alias=...) declarations; a field without an alias keeps its name. *)
(***************************************************************************)
AliasOf ==
    [Proxy |-> [host |-> "host", port |-> "port"],
     AppInfo |-> [app_name |-> "appName",
                  app_description |-> "appDescription",
                  app_category |-> "appCategory",
                  app_logo_url |-> "appLogoUrl",
                  browsable |-> "browsable"],
     AppSlice |-> [mini_app_id |-> "miniAppId",
                   offset |-> "offset",
                   limit |-> "limit"],
     DeployApp |-> [mini_app_id |-> "miniAppId",
                    file |-> "file",
                    name |-> "name",
                    description |-> "description"],
     PublishApp |-> [mini_app_id |-> "miniAppId",
                     version_id |-> "versionId",
                     description |-> "description"]]

\* BaseModel.__init__ under populate_by_name=True: a field takes the keyword
\* spelled as its alias, else the keyword spelled as its name, else its
\* default
NewModel(c, kwargs) ==
    PyModel(c, [n \in DOMAIN AliasOf[c] |->
                  IF AliasOf[c][n] \in DOMAIN kwargs THEN kwargs[AliasOf[c][n]]
                  ELSE IF n \in DOMAIN kwargs THEN kwargs[n]
                  ELSE PyNone])

\* model_dump without by_alias: the keys are the internal field names
model_dump_by_name(m) ==
    LET kept == {n \in DOMAIN m.f : m.f[n] # PyNone}
    IN [n \in kept |-> m.f[n]]

\* BaseModel.model_dump(by_alias=True, exclude_none=True)
model_dump(m) ==
    LET kept == {n \in DOMAIN m.f : m.f[n] # PyNone}
    IN [w \in {AliasOf[m.cls][n] : n \in kept} |->
          m.f[CHOOSE n \in kept : AliasOf[m.cls][n] = w]]

\* model_to_payload that takes any other value for an empty mapping
model_to_payload_lenient(value) ==
    IF value.t = "model" THEN Return(model_dump(value))
    ELSE IF value.t = "dict" THEN Return(value.v)
    ELSE Return(<<>>)

\* model_to_payload that strips the None values of a mapping as it does
\* those of a request object
model_to_payload_stripping(value) ==
    IF value.t = "model" THEN Return(model_dump(value))
    ELSE IF value.t = "dict"
    THEN Return([k \in {j \in DOMAIN value.v : value.v[j] # PyNone} |->
                    value.v[k]])
    ELSE Raise("TypeError")

model_to_payload(value) ==
    IF value.t = "model" THEN Return(model_dump(value))
    ELSE IF value.t = "dict" THEN Return(value.v)
    ELSE Raise("TypeError")

(***************************************************************************)
(* The local filesystem: the regular files that exist and their content.   *)
(***************************************************************************)
Files == [p \in {"app.zip"} |-> <<80, 75, 3, 4>>]

is_file(p) == p \in DOMAIN Files

B64Alphabet ==
    <<"A", "B", "C", "D", "E", "F", "G", "H", "I", "J", "K", "L", "M",
      "N", "O", "P", "Q", "R", "S", "T", "U", "V", "W", "X", "Y", "Z",
      "a", "b", "c", "d", "e", "f", "g", "h", "i", "j", "k", "l", "m",
      "n", "o", "p", "q", "r", "s", "t", "u", "v", "w", "x", "y", "z",
      "0", "1", "2", "3", "4", "5", "6", "7", "8", "9", "+", "/">>

\* base64.b64encode(b).decode("ascii"): three bytes give four characters,
\* a last group of one or two bytes is padded with "="
RECURSIVE b64encode(_)
b64encode(b) ==
    LET c(i) == B64Alphabet[i + 1]
    IN IF Len(b) = 0 THEN <<>>
       ELSE IF Len(b) = 1 THEN
           <<c(b[1] \div 4), c((b[1] % 4) * 16), "=", "=">>
       ELSE IF Len(b) = 2 THEN
           <<c(b[1] \div 4), c((b[1] % 4) * 16 + b[2] \div 16),
             c((b[2] % 16) * 4), "=">>
       ELSE
           <<c(b[1] \div 4), c((b[1] % 4) * 16 + b[2] \div 16),
             c((b[2] % 16) * 4 + b[3] \div 64), c(b[3] % 64)>>
           \o b64encode(SubSeq(b, 4, Len(b)))

\* encode_deploy_file that checks a Path as it checks a string, and leaves
\* the field as it is when the Path names no file
encode_deploy_file_checked(payload) ==
    IF "file" \notin DOMAIN payload THEN Return(payload)
    ELSE IF payload["file"].t = "bytes"
    THEN Return([payload EXCEPT
            !["file"] = PyText(b64encode(payload["file"].v))])
    ELSE IF payload["file"].t \in {"Path", "str"}
            /\ "v" \in DOMAIN payload["file"]
            /\ is_file(payload["file"].v)
    THEN Return([payload EXCEPT
            !["file"] = PyText(b64encode(Files[payload["file"].v]))])
    ELSE Return(payload)

\* encode_deploy_file that encodes the file a Path names and nothing else
encode_deploy_file_paths_only(payload) ==
    IF "file" \notin DOMAIN payload THEN Return(payload)
    ELSE IF payload["file"].t # "Path" THEN Return(payload)
    ELSE IF is_file(payload["file"].v)
    THEN Return([payload EXCEPT
            !["file"] = PyText(b64encode(Files[payload["file"].v]))])
    ELSE Raise("FileNotFoundError")

\* encode_deploy_file rewrites payload["file"] and returns the payload;
\* Path.read_bytes of a path that names no file raises
encode_deploy_file(payload) ==
    IF "file" \notin DOMAIN payload THEN Return(payload)
    ELSE LET file_value == payload["file"]
         IN IF file_value.t = "Path" THEN
                IF is_file(file_value.v)
                THEN Return([payload EXCEPT
                        !["file"] = PyText(b64encode(Files[file_value.v]))])
                ELSE Raise("FileNotFoundError")
            ELSE IF file_value.t = "bytes" THEN
                Return([payload EXCEPT
                        !["file"] = PyText(b64encode(file_value.v))])
            ELSE IF file_value.t = "str" /\ "v" \in DOMAIN file_value THEN
                IF is_file(file_value.v)
                THEN Return([payload EXCEPT
                        !["file"] = PyText(b64encode(Files[file_value.v]))])
                ELSE Return(payload)
            ELSE Return(payload)

\* the mapping that was passed to encode_deploy_file, as it is after the
\* call: the function assigns payload["file"] in place and returns the same
\* mapping, and a raise leaves it as it was
payload_after_encode(payload) ==
    LET r == encode_deploy_file(payload)
    IN IF r.kind = "return" THEN r.value ELSE payload

\* a conversion that gives back the storage of the request object itself
shares_payload_always(value) == TRUE

\* model_to_payload gives back the caller's own mapping (return value), and
\* a new mapping for a request object (model_dump)
shares_payload(value) == value.t = "dict"

\* the caller's argument after the payload that shares its storage was
\* rewritten
WriteThrough(value, payload) ==
    IF value.t = "dict" THEN PyDict(payload)
    ELSE PyModel(value.cls,
                 [n \in DOMAIN value.f |->
                    IF AliasOf[value.cls][n] \in DOMAIN payload
                    THEN payload[AliasOf[value.cls][n]]
                    ELSE value.f[n]])

\* the caller's argument after deploy_mini_app rewrote the payload
argument_after_deploy(value, payload) ==
    IF shares_payload(value) THEN WriteThrough(value, payload) ELSE value

(***************************************************************************)
(* The remote service: the responses a call can receive.  A body is its    *)
(* raw text; JsonTable gives the decoded value of the texts that are valid *)
(* JSON.                                                                   *)
(***************************************************************************)
JSON_OK == "{\"error\":0,\"appId\":\"123\",\"appName\":\"Foo\"}"
JSON_ERR == "{\"error\":-201,\"message\":\"invalid\"}"
PLAIN_TEXT == "plain text"

JsonTable ==
    [b \in {JSON_OK, JSON_ERR} |->
        IF b = JSON_OK
        THEN PyDict([error |-> PyInt(0), appId |-> PyStr("123"),
                     appName |-> PyStr("Foo")])
        ELSE PyDict([error |-> PyInt(-201), message |-> PyStr("invalid")])]

CT_JSON == "application/json"
CT_TEXT == "text/plain"

Statuses == {200, 304, 404, 500}

\* under 200 every body declared as JSON, and a JSON body and a text body
\* declared as text; under 404 and 500 the JSON error body of the service;
\* under 304 a text body
Responses ==
    {r \in [status : Statuses, ctype : {CT_JSON, CT_TEXT},
            text : {JSON_OK, JSON_ERR, PLAIN_TEXT, ""}] :
        \/ r.status = 200 /\ r.ctype = CT_JSON
        \/ r.status = 200 /\ r.ctype = CT_TEXT
           /\ r.text \in {JSON_OK, PLAIN_TEXT}
        \/ r.status \in {404, 500} /\ r.ctype = CT_JSON
           /\ r.text = JSON_ERR
        \/ r.status = 304 /\ r.ctype = CT_TEXT /\ r.text = PLAIN_TEXT}

\* raise_for_status that raises for server errors only
requests_raise_for_status_5xx(response) ==
    500 <= response.status /\ response.status < 600

\* requests.Response.raise_for_status raises HTTPError for 400 <= status < 600
requests_raise_for_status(response) ==
    400 <= response.status /\ response.status < 600

\* aiohttp.ClientResponse.raise_for_status raises ClientResponseError unless
\* status < 400
aiohttp_raise_for_status(response) ==
    response.status >= 400

\* requests.Response.json: decodes the body whatever the content type and
\* raises requests.JSONDecodeError, a ValueError, when it is not JSON
requests_json(response) ==
    IF response.text \in DOMAIN JsonTable
    THEN Return(JsonTable[response.text])
    ELSE Raise("ValueError")

\* aiohttp.ClientResponse.json: raises ContentTypeError unless the content
\* type is JSON, gives None for an empty body, and raises
\* json.JSONDecodeError when the body is not JSON
aiohttp_json(response) ==
    IF response.ctype # CT_JSON THEN Raise("ContentTypeError")
    ELSE IF response.text = "" THEN Return(PyNone)
    ELSE IF response.text \in DOMAIN JsonTable
    THEN Return(JsonTable[response.text])
    ELSE Raise("JSONDecodeError")

\* _parse_response that turns a non-zero error code of the body into a
\* failure
client_parse_response_checked(response) ==
    IF requests_raise_for_status(response)
    THEN RaiseStatus("HTTPError", response.status)
    ELSE LET payload == requests_json(response)
         IN IF payload = Raise("ValueError")
            THEN Return(PyStr(response.text))
            ELSE IF payload.value.v.error # PyInt(0)
            THEN Raise("APIError")
            ELSE payload

\* client.py _parse_response
client_parse_response(response) ==
    IF requests_raise_for_status(response)
    THEN RaiseStatus("HTTPError", response.status)
    ELSE LET payload == requests_json(response)
         IN IF payload = Raise("ValueError")
            THEN Return(PyStr(response.text))
            ELSE payload

\* async_client.py _parse_response
async_client_parse_response(response) ==
    IF aiohttp_raise_for_status(response)
    THEN RaiseStatus("ClientResponseError", response.status)
    ELSE LET payload == aiohttp_json(response)
         IN IF payload = Raise("ContentTypeError")
            THEN Return(PyStr(response.text))
            ELSE payload

\* openapi.py _parse_response
openapi_parse_response(response) ==
    IF requests_raise_for_status(response)
    THEN RaiseStatus("HTTPError", response.status)
    ELSE LET payload == requests_json(response)
         IN IF payload = Raise("ValueError")
            THEN Return(PyStr(response.text))
            ELSE payload

\* openapi.py _parse_async_response
openapi_parse_async_response(response) ==
    IF aiohttp_raise_for_status(response)
    THEN RaiseStatus("ClientResponseError", response.status)
    ELSE LET payload == aiohttp_json(response)
         IN IF payload = Raise("ContentTypeError")
            THEN Return(PyStr(response.text))
            ELSE payload

\* client.py _build_proxy: the proxies mapping of a blocking request
build_proxy(p) ==
    IF ~Truthy(p) THEN PyNone
    ELSE LET proxy_url ==
                 PyText(<<"http://", PyFormat(p.f.host), ":",
                          PyFormat(p.f.port)>>)
         IN PyDict([http |-> proxy_url, https |-> proxy_url])

\* async_client.py _build_proxy_url: the proxy URL of a non-blocking request
build_proxy_url(p) ==
    IF ~Truthy(p) THEN PyNone
    ELSE PyText(<<"http://", PyFormat(p.f.host), ":", PyFormat(p.f.port)>>)

\* json=...: json.dumps of requests and of aiohttp raises TypeError for a
\* bytes or a Path value
JsonSerializable(json) ==
    json = PyNone
    \/ \A k \in DOMAIN json.v : json.v[k].t \notin {"bytes", "Path", "model"}

\* params=...: requests formats any value with str(); the URL builder of
\* aiohttp raises TypeError for a value that is not a str or an int
QuerySerializable(style, params) ==
    \/ params = PyNone
    \/ style = "sync"
    \/ \A k \in DOMAIN params.v : params.v[k].t \in {"str", "int"}

\* dict.get(key): None when the key is absent
DictGet(d, k) == IF k \in DOMAIN d THEN d[k] ELSE PyNone

\* an HTTP request as handed to requests / aiohttp; a keyword that the call
\* does not pass is None
Request(method, url, json, params, hdrs, prx) ==
    [method |-> method, url |-> url, json |-> json, params |-> params,
     headers |-> hdrs, proxy |-> prx]

(***************************************************************************)
(* The arguments the callers pass.                                         *)
(***************************************************************************)
FileValues ==
    {PyBytes(<<90, 73, 80, 68, 65, 84, 65>>), PyBytes(<<>>), PyStr("not-a-real-path.zip"),
     PyStr("app.zip"), PyPath("app.zip"), PyPath("missing.zip")}

AppInfoKwargs ==
    {[appName |-> PyStr("Foo"),
      appDescription |-> PyStr("A demo mini app"),
      appCategory |-> PyStr("Kinh doanh"),
      appLogoUrl |-> PyStr("https://example.com/logo.png"),
      browsable |-> PyBool(b)] : b \in BOOLEAN}

AppSliceKwargs ==
    {[offset |-> PyInt(0), limit |-> PyInt(10)],
     [miniAppId |-> PyStr("123"), offset |-> PyInt(0), limit |-> PyInt(10)]}

DeployAppKwargs ==
    {[miniAppId |-> PyStr("123"), file |-> f, name |-> PyStr("v1"),
      description |-> PyStr("first")] : f \in FileValues}

PublishAppKwargs ==
    {[miniAppId |-> PyStr("123"), versionId |-> PyInt(789)],
     [miniAppId |-> PyStr("123"), versionId |-> PyInt(789),
      description |-> PyStr("ready")]}

\* keyword arguments, spelled with the wire names, that construct a request
\* object of each class
ModelKwargs ==
    {<<"AppInfo", k>> : k \in AppInfoKwargs}
    \cup {<<"AppSlice", k>> : k \in AppSliceKwargs}
    \cup {<<"DeployApp", k>> : k \in DeployAppKwargs}
    \cup {<<"PublishApp", k>> : k \in PublishAppKwargs}

\* keyword arguments spelled with the field names, an optional field given
\* as None
NameKwargs ==
    {<<"PublishApp", [mini_app_id |-> PyStr("123"), version_id |-> PyInt(7),
                      description |-> PyNone]>>,
     <<"AppSlice", [mini_app_id |-> PyNone, offset |-> PyInt(20),
                    limit |-> PyInt(5)]>>}

\* values that are neither a request object nor a mapping
OtherValues == {PyNone, PyStr("payload"), PyInt(5), PyList(<<>>)}

\* the arguments of a direct call of the payload codec: request objects,
\* plain mappings (the keyword mappings above, so also mappings with
\* internal names or a None value, and the empty one) and other values
CodecArguments ==
    {NewModel(k[1], k[2]) : k \in ModelKwargs \cup NameKwargs}
    \cup {PyDict(k[2]) : k \in ModelKwargs \cup NameKwargs}
    \cup {PyDict(<<>>)}
    \cup OtherValues

\* the arguments of the client operations: request objects of each class
\* (an AppSlice without an app id, a DeployApp of bytes and one of a path
\* that names no file, a PublishApp with and without description), two
\* plain mappings and two values that are neither
ZIPDATA == PyBytes(<<90, 73, 80, 68, 65, 84, 65>>)

Arguments ==
    {NewModel("AppInfo",
              [appName |-> PyStr("Foo"),
               appDescription |-> PyStr("A demo mini app"),
               appCategory |-> PyStr("Kinh doanh"),
               appLogoUrl |-> PyStr("https://example.com/logo.png"),
               browsable |-> PyBool(TRUE)]),
     NewModel("AppSlice", [offset |-> PyInt(0), limit |-> PyInt(10)]),
     NewModel("AppSlice", [miniAppId |-> PyStr("123"), offset |-> PyInt(0),
                           limit |-> PyInt(10)]),
     NewModel("DeployApp", [miniAppId |-> PyStr("123"), file |-> ZIPDATA,
                            name |-> PyStr("v1"),
                            description |-> PyStr("first")]),
     NewModel("DeployApp", [miniAppId |-> PyStr("123"),
                            file |-> PyPath("app.zip"),
                            name |-> PyStr("v1"),
                            description |-> PyStr("first")]),
     NewModel("DeployApp", [miniAppId |-> PyStr("123"),
                            file |-> PyPath("missing.zip"),
                            name |-> PyStr("v1"),
                            description |-> PyStr("first")]),
     NewModel("PublishApp", [miniAppId |-> PyStr("123"),
                             versionId |-> PyInt(789)]),
     NewModel("PublishApp", [miniAppId |-> PyStr("123"),
                             versionId |-> PyInt(789),
                             description |-> PyStr("ready")]),
     PyDict([miniAppId |-> PyStr("123"), file |-> ZIPDATA,
             versionId |-> PyInt(789), offset |-> PyInt(0),
             limit |-> PyInt(10)]),
     PyDict([offset |-> PyInt(0), limit |-> PyInt(10)]),
     PyNone, PyList(<<>>)}

\* the values a caller gives as api_key
Credentials == {PyNone, PyStr(""), PyStr("secret")}

\* the values a caller gives as zalo_app_id
AppIds == {PyNone, PyStr(""), PyStr("4242")}

\* Proxy(host=..., port=...): a complete pair and the two incomplete ones
Proxies ==
    {NewModel("Proxy", [host |-> PyStr("p.example"), port |-> PyInt(8080)]),
     NewModel("Proxy", [host |-> PyStr(""), port |-> PyInt(8080)]),
     NewModel("Proxy", [host |-> PyStr("p.example"), port |-> PyInt(0)])}

\* the domain argument of a low-level function: its default, and another
Domains == {DOMAIN_PROD, DOMAIN_DEV}

(***************************************************************************)
(* State.                                                                  *)
(***************************************************************************)
VARIABLES
    cls,           \* the class of the client object, "none" before one exists
    api_key,       \* self.api_key
    zalo_app_id,   \* self.zalo_app_id
    proxy,         \* self.proxy
    is_use_proxy,  \* self.is_use_proxy
    headers,       \* self.headers
    nrequests,     \* the HTTP requests issued so far
    lastCall,      \* the most recent call of the SDK and what it did
    cancelled,     \* cancel_proxy was called and no set_proxy followed
    argAfter,      \* the argument object of the most recent call, after it
    sessionLog,    \* what the most recent call did with aiohttp sessions
    openSessions   \* the aiohttp sessions that are open

vars == <<cls, api_key, zalo_app_id, proxy, is_use_proxy, headers,
          nrequests, lastCall, cancelled, argAfter, sessionLog, openSessions>>

client == <<cls, api_key, zalo_app_id, proxy, is_use_proxy, headers>>

SDK_VERSION == "__version__"
SDK_NAME == "Python"

\* a call: its name, its style, its argument, the requests it issued, the
\* responses it received and how it ended
CallRecord(op, style, arg, reqs, resps, outcome) ==
    [op |-> op, style |-> style, arg |-> arg, reqs |-> reqs,
     resps |-> resps, outcome |-> outcome]

Init ==
    /\ cls = "none"
    /\ api_key = PyNone
    /\ zalo_app_id = PyNone
    /\ proxy = PyNone
    /\ is_use_proxy = FALSE
    /\ headers = PyNone
    /\ nrequests = 0
    /\ lastCall = CallRecord("none", "none", PyNone, <<>>, <<>>,
                             Return(PyNone))
    /\ cancelled = FALSE
    /\ argAfter = PyNone
    /\ sessionLog = <<>>
    /\ openSessions = 0

\* a call that changes no argument and opens no session
NoEffects(arg) ==
    /\ argAfter' = arg
    /\ sessionLog' = <<>>
    /\ UNCHANGED openSessions

\* headers that carry the app id as the key and the key as the app id
ClientHeaders_swapped(k, a) ==
    PyDict(("X-Api-Key" :> a)
           @@ ("X-Zalo-AppID" :> k)
           @@ ("X-Sdk-Version" :> PyStr(SDK_VERSION))
           @@ ("X-Sdk-Name" :> PyStr(SDK_NAME)))

\* self.headers of __init__
ClientHeaders(k, a) ==
    PyDict(("X-Api-Key" :> k)
           @@ ("X-Zalo-AppID" :> a)
           @@ ("X-Sdk-Version" :> PyStr(SDK_VERSION))
           @@ ("X-Sdk-Name" :> PyStr(SDK_NAME)))

(***************************************************************************)
(* client.py: construction and proxy configuration.                        *)
(***************************************************************************)
\* a check of the API key alone
InvalidInitValue_key_only(k, a) == ~Truthy(k)

\* the check of __init__: not api_key or not zalo_app_id
InvalidInitValue(k, a) == ~Truthy(k) \/ ~Truthy(a)

\* OpenAPIClient.__init__; AsyncOpenAPIClient.__init__ only calls it
OpenAPIClient_init(c, k, a, p) ==
    /\ cls = "none"
    /\ IF InvalidInitValue(k, a) THEN
           /\ lastCall' = CallRecord("__init__", c, <<k, a, p>>, <<>>, <<>>,
                                     Raise("ValueError"))
           /\ NoEffects(<<k, a, p>>)
           /\ UNCHANGED <<client, nrequests, cancelled>>
       ELSE IF Truthy(p) /\ (~Truthy(p.f.host) \/ ~Truthy(p.f.port)) THEN
           /\ lastCall' = CallRecord("__init__", c, <<k, a, p>>, <<>>, <<>>,
                                     Raise("ValueError"))
           /\ NoEffects(<<k, a, p>>)
           /\ UNCHANGED <<client, nrequests, cancelled>>
       ELSE
           /\ cls' = c
           /\ api_key' = k
           /\ zalo_app_id' = a
           /\ proxy' = IF Truthy(p) THEN p ELSE PyNone
           /\ is_use_proxy' = Truthy(p)
           /\ headers' = ClientHeaders(k, a)
           /\ lastCall' = CallRecord("__init__", c, <<k, a, p>>, <<>>, <<>>,
                                     Return(PyNone))
           /\ NoEffects(<<k, a, p>>)
           /\ UNCHANGED <<nrequests, cancelled>>

NewOpenAPIClient ==
    \E k \in Credentials, a \in AppIds, p \in Proxies \cup {PyNone} :
        OpenAPIClient_init("OpenAPIClient", k, a, p)

NewAsyncOpenAPIClient ==
    \E k \in Credentials, a \in AppIds, p \in Proxies \cup {PyNone} :
        OpenAPIClient_init("AsyncOpenAPIClient", k, a, p)

set_proxy(p) ==
    /\ cls # "none"
    /\ proxy' = p
    /\ is_use_proxy' = TRUE
    /\ cancelled' = FALSE
    /\ lastCall' = CallRecord("set_proxy", cls, p, <<>>, <<>>, Return(PyNone))
    /\ NoEffects(p)
    /\ UNCHANGED <<cls, api_key, zalo_app_id, headers, nrequests>>

\* a cancel_proxy that clears the flag and keeps the stored proxy
cancel_proxy_flag_only ==
    /\ cls # "none"
    /\ proxy' = proxy
    /\ is_use_proxy' = FALSE
    /\ cancelled' = TRUE
    /\ lastCall' = CallRecord("cancel_proxy", cls, PyNone, <<>>, <<>>,
                              Return(PyNone))
    /\ NoEffects(PyNone)
    /\ UNCHANGED <<cls, api_key, zalo_app_id, headers, nrequests>>

cancel_proxy ==
    /\ cls # "none"
    /\ proxy' = PyNone
    /\ is_use_proxy' = FALSE
    /\ cancelled' = TRUE
    /\ lastCall' = CallRecord("cancel_proxy", cls, PyNone, <<>>, <<>>,
                              Return(PyNone))
    /\ NoEffects(PyNone)
    /\ UNCHANGED <<cls, api_key, zalo_app_id, headers, nrequests>>

(***************************************************************************)
(* The two ways a call ends: before the network, or after one exchange.    *)
(***************************************************************************)
\* a session that is closed on the return of the block only, and stays open
\* when the block is left by an exception
async_with_session_leaky(sent, outcome) ==
    <<"open">> \o (IF sent THEN <<"request">> ELSE <<>>)
               \o (IF outcome.kind = "return" THEN <<"close">> ELSE <<>>)

\* `async with aiohttp.ClientSession() as session:` around one request: the
\* session is opened, the request is made unless building it raised, and
\* leaving the block closes the session however the block ends
async_with_session(sent, outcome) ==
    <<"open">> \o (IF sent THEN <<"request">> ELSE <<>>) \o <<"close">>

\* the sessions a call leaves open, given those open before it
SessionsAfter(n, log) ==
    n + Cardinality({i \in DOMAIN log : log[i] = "open"})
      - Cardinality({i \in DOMAIN log : log[i] = "close"})

\* the call raised before it built a request, so before the session block
Abort(op, style, arg, outcome) ==
    /\ lastCall' = CallRecord(op, style, arg, <<>>, <<>>, outcome)
    /\ NoEffects(arg)
    /\ UNCHANGED <<client, nrequests, cancelled>>

\* an exchange that issues the request a second time after a 5xx response
ExchangeAfter_retrying(op, style, arg, after, req, response, outcome) ==
    /\ argAfter' = after
    /\ UNCHANGED <<client, cancelled>>
    /\ lastCall' = CallRecord(op, style, arg,
                              IF response.status >= 500 THEN <<req, req>>
                              ELSE <<req>>,
                              IF response.status >= 500
                              THEN <<response, response>> ELSE <<response>>,
                              outcome)
    /\ nrequests' = nrequests + (IF response.status >= 500 THEN 2 ELSE 1)
    /\ sessionLog' = IF style = "async"
                     THEN async_with_session(TRUE, outcome) ELSE <<>>
    /\ openSessions' = SessionsAfter(openSessions, sessionLog')

\* the call, whose argument is now `after`, handed req to the HTTP library:
\* building the request raised, or the request was issued, response was
\* received and the call ended as outcome
ExchangeAfter(op, style, arg, after, req, response, outcome) ==
    /\ argAfter' = after
    /\ UNCHANGED <<client, cancelled>>
    /\ IF JsonSerializable(req.json) /\ QuerySerializable(style, req.params)
       THEN /\ lastCall' = CallRecord(op, style, arg, <<req>>, <<response>>,
                                      outcome)
            /\ nrequests' = nrequests + 1
            /\ sessionLog' = IF style = "async"
                             THEN async_with_session(TRUE, outcome)
                             ELSE <<>>
            /\ openSessions' = SessionsAfter(openSessions, sessionLog')
       ELSE /\ lastCall' = CallRecord(op, style, arg, <<>>, <<>>,
                                      Raise("TypeError"))
            /\ nrequests' = nrequests
            /\ sessionLog' = IF style = "async"
                             THEN async_with_session(FALSE, Raise("TypeError"))
                             ELSE <<>>
            /\ openSessions' = SessionsAfter(openSessions, sessionLog')

\* an exchange of a call that leaves its argument as it was
Exchange(op, style, arg, req, response, outcome) ==
    ExchangeAfter(op, style, arg, arg, req, response, outcome)

(***************************************************************************)
(* client.py: the operations of the blocking client.                       *)
(***************************************************************************)
create_mini_app(app_info) ==
    /\ cls = "OpenAPIClient"
    /\ nrequests < MaxRequests
    /\ LET payload == model_to_payload(app_info)
       IN IF payload.kind = "raise"
          THEN Abort("create_mini_app", "sync", app_info, payload)
          ELSE \E response \in Responses :
                 Exchange("create_mini_app", "sync", app_info,
                     Request("POST", <<DOMAIN_PROD, APPS>>,
                             PyDict(payload.value), PyNone, headers,
                             IF is_use_proxy THEN build_proxy(proxy)
                             ELSE PyNone),
                     response, client_parse_response(response))

get_mini_apps(app_slice) ==
    /\ cls = "OpenAPIClient"
    /\ nrequests < MaxRequests
    /\ LET params == model_to_payload(app_slice)
       IN IF params.kind = "raise"
          THEN Abort("get_mini_apps", "sync", app_slice, params)
          ELSE \E response \in Responses :
                 Exchange("get_mini_apps", "sync", app_slice,
                     Request("GET", <<DOMAIN_PROD, APPS>>, PyNone,
                             PyDict(params.value), headers, PyNone),
                     response, client_parse_response(response))

deploy_mini_app(deploy_app) ==
    /\ cls = "OpenAPIClient"
    /\ nrequests < MaxRequests
    /\ LET converted == model_to_payload(deploy_app)
           payload == IF converted.kind = "raise" THEN converted
                      ELSE encode_deploy_file(converted.value)
       IN IF payload.kind = "raise"
          THEN Abort("deploy_mini_app", "sync", deploy_app, payload)
          ELSE LET mini_app_id == DictGet(payload.value, "miniAppId")
               IN \E response \in Responses :
                    ExchangeAfter("deploy_mini_app", "sync", deploy_app,
                        argument_after_deploy(deploy_app, payload.value),
                        Request("POST",
                                <<DOMAIN_PROD, APPS, "/",
                                  PyFormat(mini_app_id), UPLOAD>>,
                                PyDict(payload.value), PyNone, headers,
                                PyNone),
                        response, client_parse_response(response))

get_versions_mini_app(app_slice) ==
    /\ cls = "OpenAPIClient"
    /\ nrequests < MaxRequests
    /\ LET params == model_to_payload(app_slice)
       IN IF params.kind = "raise"
          THEN Abort("get_versions_mini_app", "sync", app_slice, params)
          ELSE LET mini_app_id == DictGet(params.value, "miniAppId")
               IN \E response \in Responses :
                    Exchange("get_versions_mini_app", "sync", app_slice,
                        Request("GET",
                                <<DOMAIN_PROD, APPS, "/",
                                  PyFormat(mini_app_id), VERSIONS>>,
                                PyNone, PyDict(params.value), headers,
                                PyNone),
                        response, client_parse_response(response))

request_publish_mini_app(publish_app) ==
    /\ cls = "OpenAPIClient"
    /\ nrequests < MaxRequests
    /\ LET payload == model_to_payload(publish_app)
       IN IF payload.kind = "raise"
          THEN Abort("request_publish_mini_app", "sync", publish_app, payload)
          ELSE LET mini_app_id == DictGet(payload.value, "miniAppId")
               IN \E response \in Responses :
                    Exchange("request_publish_mini_app", "sync", publish_app,
                        Request("POST",
                                <<DOMAIN_PROD, APPS, "/",
                                  PyFormat(mini_app_id), REQUEST_PUBLISH>>,
                                PyDict(payload.value), PyNone, headers,
                                PyNone),
                        response, client_parse_response(response))

publish_mini_app(publish_app) ==
    /\ cls = "OpenAPIClient"
    /\ nrequests < MaxRequests
    /\ LET payload == model_to_payload(publish_app)
       IN IF payload.kind = "raise"
          THEN Abort("publish_mini_app", "sync", publish_app, payload)
          ELSE LET mini_app_id == DictGet(payload.value, "miniAppId")
               IN \E response \in Responses :
                    Exchange("publish_mini_app", "sync", publish_app,
                        Request("POST",
                                <<DOMAIN_PROD, APPS, "/",
                                  PyFormat(mini_app_id), PUBLISH>>,
                                PyDict(payload.value), PyNone, headers,
                                PyNone),
                        response, client_parse_response(response))

(***************************************************************************)
(* async_client.py: the operations of the non-blocking client.  Each opens *)
(* an aiohttp.ClientSession for the one request and leaves it on return.   *)
(***************************************************************************)
Async_create_mini_app(app_info) ==
    /\ cls = "AsyncOpenAPIClient"
    /\ nrequests < MaxRequests
    /\ LET payload == model_to_payload(app_info)
           proxy_url == IF is_use_proxy THEN build_proxy_url(proxy)
                        ELSE PyNone
       IN IF payload.kind = "raise"
          THEN Abort("create_mini_app", "async", app_info, payload)
          ELSE \E response \in Responses :
                 Exchange("create_mini_app", "async", app_info,
                     Request("POST", <<DOMAIN_PROD, APPS>>,
                             PyDict(payload.value), PyNone, headers,
                             proxy_url),
                     response, async_client_parse_response(response))

Async_get_mini_apps(app_slice) ==
    /\ cls = "AsyncOpenAPIClient"
    /\ nrequests < MaxRequests
    /\ LET params == model_to_payload(app_slice)
       IN IF params.kind = "raise"
          THEN Abort("get_mini_apps", "async", app_slice, params)
          ELSE \E response \in Responses :
                 Exchange("get_mini_apps", "async", app_slice,
                     Request("GET", <<DOMAIN_PROD, APPS>>, PyNone,
                             PyDict(params.value), headers, PyNone),
                     response, async_client_parse_response(response))

Async_deploy_mini_app(deploy_app) ==
    /\ cls = "AsyncOpenAPIClient"
    /\ nrequests < MaxRequests
    /\ LET converted == model_to_payload(deploy_app)
           payload == IF converted.kind = "raise" THEN converted
                      ELSE encode_deploy_file(converted.value)
       IN IF payload.kind = "raise"
          THEN Abort("deploy_mini_app", "async", deploy_app, payload)
          ELSE LET mini_app_id == DictGet(payload.value, "miniAppId")
               IN \E response \in Responses :
                    ExchangeAfter("deploy_mini_app", "async", deploy_app,
                        argument_after_deploy(deploy_app, payload.value),
                        Request("POST",
                                <<DOMAIN_PROD, APPS, "/",
                                  PyFormat(mini_app_id), UPLOAD>>,
                                PyDict(payload.value), PyNone, headers,
                                PyNone),
                        response, async_client_parse_response(response))

Async_get_versions_mini_app(app_slice) ==
    /\ cls = "AsyncOpenAPIClient"
    /\ nrequests < MaxRequests
    /\ LET params == model_to_payload(app_slice)
       IN IF params.kind = "raise"
          THEN Abort("get_versions_mini_app", "async", app_slice, params)
          ELSE LET mini_app_id == DictGet(params.value, "miniAppId")
               IN \E response \in Responses :
                    Exchange("get_versions_mini_app", "async", app_slice,
                        Request("GET",
                                <<DOMAIN_PROD, APPS, "/",
                                  PyFormat(mini_app_id), VERSIONS>>,
                                PyNone, PyDict(params.value), headers,
                                PyNone),
                        response, async_client_parse_response(response))

Async_request_publish_mini_app(publish_app) ==
    /\ cls = "AsyncOpenAPIClient"
    /\ nrequests < MaxRequests
    /\ LET payload == model_to_payload(publish_app)
       IN IF payload.kind = "raise"
          THEN Abort("request_publish_mini_app", "async", publish_app, payload)
          ELSE LET mini_app_id == DictGet(payload.value, "miniAppId")
               IN \E response \in Responses :
                    Exchange("request_publish_mini_app", "async", publish_app,
                        Request("POST",
                                <<DOMAIN_PROD, APPS, "/",
                                  PyFormat(mini_app_id), REQUEST_PUBLISH>>,
                                PyDict(payload.value), PyNone, headers,
                                PyNone),
                        response, async_client_parse_response(response))

Async_publish_mini_app(publish_app) ==
    /\ cls = "AsyncOpenAPIClient"
    /\ nrequests < MaxRequests
    /\ LET payload == model_to_payload(publish_app)
       IN IF payload.kind = "raise"
          THEN Abort("publish_mini_app", "async", publish_app, payload)
          ELSE LET mini_app_id == DictGet(payload.value, "miniAppId")
               IN \E response \in Responses :
                    Exchange("publish_mini_app", "async", publish_app,
                        Request("POST",
                                <<DOMAIN_PROD, APPS, "/",
                                  PyFormat(mini_app_id), PUBLISH>>,
                                PyDict(payload.value), PyNone, headers,
                                PyNone),
                        response, async_client_parse_response(response))

(***************************************************************************)
(* openapi.py: the low-level functions.  They take no client, attach no    *)
(* headers and pass no proxy.                                              *)
(***************************************************************************)
\* the arguments the low-level functions are called with
LowData == {v \in Arguments : v.t = "dict"}
LowIds == {PyStr("123")}
LowVersions == {PyInt(789)}
LowDescriptions == {PyNone, PyStr("ready")}
LowOffsets == {PyInt(0)}
LowLimits == {PyInt(10)}

create_app(data, domain) ==
    /\ nrequests < MaxRequests
    /\ \E response \in Responses :
         Exchange("create_app", "sync", <<data, domain>>,
             Request("POST", <<domain, APPS>>,
                     data, PyNone, PyNone, PyNone),
             response, openapi_parse_response(response))

get_apps(offset, limit, domain) ==
    /\ nrequests < MaxRequests
    /\ \E response \in Responses :
         Exchange("get_apps", "sync", <<offset, limit, domain>>,
             Request("GET", <<domain, APPS>>,
                     PyNone, PyDict([offset |-> offset, limit |-> limit]), PyNone, PyNone),
             response, openapi_parse_response(response))

deploy_app(mini_app_id, data, domain) ==
    /\ nrequests < MaxRequests
    /\ \E response \in Responses :
         Exchange("deploy_app", "sync", <<mini_app_id, data, domain>>,
             Request("POST", <<domain, APPS, "/", PyFormat(mini_app_id), UPLOAD>>,
                     data, PyNone, PyNone, PyNone),
             response, openapi_parse_response(response))

get_versions_app(mini_app_id, offset, limit, domain) ==
    /\ nrequests < MaxRequests
    /\ \E response \in Responses :
         Exchange("get_versions_app", "sync", <<mini_app_id, offset, limit, domain>>,
             Request("GET", <<domain, APPS, "/", PyFormat(mini_app_id), VERSIONS>>,
                     PyNone, PyDict([offset |-> offset, limit |-> limit]), PyNone, PyNone),
             response, openapi_parse_response(response))

request_publish(mini_app_id, version_id, description, domain) ==
    /\ nrequests < MaxRequests
    /\ LET payload == IF description # PyNone
                      THEN [versionId |-> version_id,
                            description |-> description]
                      ELSE [versionId |-> version_id]
       IN \E response \in Responses :
         Exchange("request_publish", "sync", <<mini_app_id, version_id, description, domain>>,
             Request("POST", <<domain, APPS, "/", PyFormat(mini_app_id),
                       REQUEST_PUBLISH>>,
                     PyDict(payload), PyNone, PyNone, PyNone),
             response, openapi_parse_response(response))

publish(mini_app_id, version_id, domain) ==
    /\ nrequests < MaxRequests
    /\ \E response \in Responses :
         Exchange("publish", "sync", <<mini_app_id, version_id, domain>>,
             Request("POST", <<domain, APPS, "/", PyFormat(mini_app_id), PUBLISH>>,
                     PyDict([versionId |-> version_id]), PyNone, PyNone, PyNone),
             response, openapi_parse_response(response))

async_create_app(data, domain) ==
    /\ nrequests < MaxRequests
    /\ \E response \in Responses :
         Exchange("async_create_app", "async", <<data, domain>>,
             Request("POST", <<domain, APPS>>,
                     data, PyNone, PyNone, PyNone),
             response, openapi_parse_async_response(response))

async_get_apps(offset, limit, domain) ==
    /\ nrequests < MaxRequests
    /\ \E response \in Responses :
         Exchange("async_get_apps", "async", <<offset, limit, domain>>,
             Request("GET", <<domain, APPS>>,
                     PyNone, PyDict([offset |-> offset, limit |-> limit]), PyNone, PyNone),
             response, openapi_parse_async_response(response))

async_deploy_app(mini_app_id, data, domain) ==
    /\ nrequests < MaxRequests
    /\ \E response \in Responses :
         Exchange("async_deploy_app", "async", <<mini_app_id, data, domain>>,
             Request("POST", <<domain, APPS, "/", PyFormat(mini_app_id), UPLOAD>>,
                     data, PyNone, PyNone, PyNone),
             response, openapi_parse_async_response(response))

async_get_versions_app(mini_app_id, offset, limit, domain) ==
    /\ nrequests < MaxRequests
    /\ \E response \in Responses :
         Exchange("async_get_versions_app", "async", <<mini_app_id, offset, limit, domain>>,
             Request("GET", <<domain, APPS, "/", PyFormat(mini_app_id), VERSIONS>>,
                     PyNone, PyDict([offset |-> offset, limit |-> limit]), PyNone, PyNone),
             response, openapi_parse_async_response(response))

async_request_publish(mini_app_id, version_id, description, domain) ==
    /\ nrequests < MaxRequests
    /\ LET payload == IF description # PyNone
                      THEN [versionId |-> version_id,
                            description |-> description]
                      ELSE [versionId |-> version_id]
       IN \E response \in Responses :
         Exchange("async_request_publish", "async", <<mini_app_id, version_id, description, domain>>,
             Request("POST", <<domain, APPS, "/", PyFormat(mini_app_id),
                       REQUEST_PUBLISH>>,
                     PyDict(payload), PyNone, PyNone, PyNone),
             response, openapi_parse_async_response(response))

async_publish(mini_app_id, version_id, domain) ==
    /\ nrequests < MaxRequests
    /\ \E response \in Responses :
         Exchange("async_publish", "async", <<mini_app_id, version_id, domain>>,
             Request("POST", <<domain, APPS, "/", PyFormat(mini_app_id), PUBLISH>>,
                     PyDict([versionId |-> version_id]), PyNone, PyNone, PyNone),
             response, openapi_parse_async_response(response))

(***************************************************************************)
(* models.py: a direct call of model_to_payload.                           *)
(***************************************************************************)
ToPayload(value) ==
    /\ lastCall' = CallRecord("model_to_payload", "sync", value, <<>>, <<>>,
                              LET r == model_to_payload(value)
                              IN IF r.kind = "return"
                                 THEN Return(PyDict(r.value)) ELSE r)
    /\ NoEffects(value)
    /\ UNCHANGED <<client, nrequests, cancelled>>

(***************************************************************************)
(* models.py: a direct call of encode_deploy_file on a payload mapping.    *)
(***************************************************************************)
\* file values of every kind and of every length of a last base64 group
EncodeFileValues ==
    FileValues
    \cup {PyBytes(<<77>>), PyBytes(<<77, 97>>), PyBytes(<<77, 97, 110>>),
          PyBytes(<<255, 254, 253, 0>>), PyInt(5), PyNone}

EncodePayloads ==
    {[miniAppId |-> PyStr("123"), file |-> f, name |-> PyStr("v1")] :
        f \in EncodeFileValues}
    \cup {[file |-> f] : f \in FileValues}
    \cup {[miniAppId |-> PyStr("123"), name |-> PyStr("v1")], <<>>}

EncodeDeployFile(payload) ==
    /\ lastCall' = CallRecord("encode_deploy_file", "sync", PyDict(payload),
                              <<>>, <<>>,
                              LET r == encode_deploy_file(payload)
                              IN IF r.kind = "return"
                                 THEN Return(PyDict(r.value)) ELSE r)
    /\ argAfter' = PyDict(payload_after_encode(payload))
    /\ sessionLog' = <<>>
    /\ UNCHANGED <<client, nrequests, cancelled, openSessions>>

(***************************************************************************)
(* The specification.                                                      *)
(***************************************************************************)
Next ==
    \/ NewOpenAPIClient
    \/ NewAsyncOpenAPIClient
    \/ \E p \in Proxies : set_proxy(p)
    \/ cancel_proxy
    \/ \E v \in Arguments : create_mini_app(v)
    \/ \E v \in Arguments : get_mini_apps(v)
    \/ \E v \in Arguments : deploy_mini_app(v)
    \/ \E v \in Arguments : get_versions_mini_app(v)
    \/ \E v \in Arguments : request_publish_mini_app(v)
    \/ \E v \in Arguments : publish_mini_app(v)
    \/ \E v \in Arguments : Async_create_mini_app(v)
    \/ \E v \in Arguments : Async_get_mini_apps(v)
    \/ \E v \in Arguments : Async_deploy_mini_app(v)
    \/ \E v \in Arguments : Async_get_versions_mini_app(v)
    \/ \E v \in Arguments : Async_request_publish_mini_app(v)
    \/ \E v \in Arguments : Async_publish_mini_app(v)
    \/ \E d \in LowData, dom \in Domains : create_app(d, dom)
    \/ \E o \in LowOffsets, l \in LowLimits, dom \in Domains :
         get_apps(o, l, dom)
    \/ \E i \in LowIds, d \in LowData, dom \in Domains : deploy_app(i, d, dom)
    \/ \E i \in LowIds, o \in LowOffsets, l \in LowLimits, dom \in Domains :
         get_versions_app(i, o, l, dom)
    \/ \E i \in LowIds, v \in LowVersions, t \in LowDescriptions,
          dom \in Domains : request_publish(i, v, t, dom)
    \/ \E i \in LowIds, v \in LowVersions, dom \in Domains : publish(i, v, dom)
    \/ \E d \in LowData, dom \in Domains : async_create_app(d, dom)
    \/ \E o \in LowOffsets, l \in LowLimits, dom \in Domains :
         async_get_apps(o, l, dom)
    \/ \E i \in LowIds, d \in LowData, dom \in Domains :
         async_deploy_app(i, d, dom)
    \/ \E i \in LowIds, o \in LowOffsets, l \in LowLimits, dom \in Domains :
         async_get_versions_app(i, o, l, dom)
    \/ \E i \in LowIds, v \in LowVersions, t \in LowDescriptions,
          dom \in Domains : async_request_publish(i, v, t, dom)
    \/ \E i \in LowIds, v \in LowVersions, dom \in Domains :
         async_publish(i, v, dom)
    \/ \E v \in CodecArguments : ToPayload(v)
    \/ \E v \in EncodePayloads : EncodeDeployFile(v)

Spec == Init /\ [][Next]_vars

TypeOK ==
    /\ cls \in {"none", "OpenAPIClient", "AsyncOpenAPIClient"}
    /\ is_use_proxy \in BOOLEAN
    /\ nrequests \in 0..MaxRequests
    /\ cancelled \in BOOLEAN
    /\ Len(lastCall.reqs) \in {0, 1}
    /\ sessionLog \in Seq({"open", "request", "close"})
    /\ openSessions \in Nat

(***************************************************************************)
(* Vocabulary of the properties.                                           *)
(***************************************************************************)
FacadeOps ==
    {"create_mini_app", "get_mini_apps", "deploy_mini_app",
     "get_versions_mini_app", "request_publish_mini_app", "publish_mini_app"}

LowLevelOps ==
    {"create_app", "get_apps", "deploy_app", "get_versions_app",
     "request_publish", "publish", "async_create_app", "async_get_apps",
     "async_deploy_app", "async_get_versions_app", "async_request_publish",
     "async_publish"}

\* the last call was an SDK operation that issued a request
Sent == lastCall.op \in FacadeOps \cup LowLevelOps /\ Len(lastCall.reqs) = 1
FacadeSent == lastCall.op \in FacadeOps /\ Len(lastCall.reqs) = 1

\* the proxy a request is routed through, None when it goes direct: the
\* https entry of the proxies mapping of requests, the proxy URL of aiohttp
RouteOf(req) ==
    IF req.proxy = PyNone THEN PyNone
    ELSE IF req.proxy.t = "dict" THEN req.proxy.v["https"]
    ELSE req.proxy

\* http://h:p
ProxyAddress(h, p) == PyText(<<"http://", h, ":", ToString(p)>>)

(***************************************************************************)
(* C1.  With a proxy of host h and port p configured on a client, every    *)
(* request of every client operation is routed through http://h:p.         *)
(* Stated as the claim states it; only create_mini_app passes the proxy.   *)
(***************************************************************************)
C1_EveryRequestThroughProxy ==
    (FacadeSent /\ is_use_proxy /\ proxy # PyNone) =>
        RouteOf(lastCall.reqs[1]) = ProxyAddress(proxy.f.host.v, proxy.f.port.v)

(***************************************************************************)
(* C2.  Each client operation uses the proxy configuration in force at the *)
(* moment of the call: through the configured proxy when one is set,       *)
(* direct once cancel_proxy was called and no set_proxy followed.          *)
(***************************************************************************)
C2_ProxyInForceAtCall ==
    FacadeSent =>
        /\ cancelled => RouteOf(lastCall.reqs[1]) = PyNone
        /\ ~is_use_proxy => RouteOf(lastCall.reqs[1]) = PyNone
        /\ is_use_proxy =>
             RouteOf(lastCall.reqs[1]) # PyNone
             /\ RouteOf(lastCall.reqs[1]).parts[2] = proxy.f.host.v
             /\ RouteOf(lastCall.reqs[1]).parts[4] = ToString(proxy.f.port.v)

\* the half of C2 about cancel_proxy alone: after cancel_proxy, and until a
\* set_proxy, every request of the client goes direct
C2_DirectAfterCancel ==
    (FacadeSent /\ cancelled) => RouteOf(lastCall.reqs[1]) = PyNone

C4_ValidJsonReturned ==
    (/\ Sent
     /\ lastCall.resps[1].status \in 200..299
     /\ lastCall.resps[1].text \in DOMAIN JsonTable) =>
        lastCall.outcome = Return(JsonTable[lastCall.resps[1].text])

(***************************************************************************)
(* C4, amended.  A 2xx response with a valid JSON body makes every         *)
(* blocking operation return the decoded body unchanged, and every         *)
(* non-blocking operation too when the response declares a JSON content    *)
(* type, whatever the error field; a non-blocking operation returns the    *)
(* raw text of the body when the declared content type is not JSON.        *)
(***************************************************************************)
C4_ValidJsonReturnedWhenDeclared ==
    (/\ Sent
     /\ lastCall.resps[1].status \in 200..299
     /\ lastCall.resps[1].text \in DOMAIN JsonTable) =>
        IF lastCall.style = "sync" \/ lastCall.resps[1].ctype = CT_JSON
        THEN lastCall.outcome = Return(JsonTable[lastCall.resps[1].text])
        ELSE lastCall.outcome = Return(PyStr(lastCall.resps[1].text))

C4_Witness ==
    /\ Sent
    /\ lastCall.op = "create_mini_app"
    /\ lastCall.resps[1] =
           [status |-> 200, ctype |-> CT_JSON, text |-> JSON_ERR]
    /\ lastCall.outcome.kind = "return"
    /\ lastCall.outcome.value.v.error = PyInt(-201)

(***************************************************************************)
(* C5.  A 2xx response whose body is not valid JSON, whatever its declared *)
(* content type, makes every operation return the raw text of the body.    *)
(* Stated as the claim states it; the non-blocking style raises the JSON   *)
(* decode error of a body declared as JSON.                                *)
(***************************************************************************)
C5_NonJsonReturnsText ==
    (/\ Sent
     /\ lastCall.resps[1].status \in 200..299
     /\ lastCall.resps[1].text \notin DOMAIN JsonTable) =>
        lastCall.outcome = Return(PyStr(lastCall.resps[1].text))

(***************************************************************************)
(* C6.  Constructing a client of either class with an empty or missing API *)
(* key or app id raises a configuration error, produces no client object   *)
(* and issues no HTTP request.                                             *)
(***************************************************************************)
C6_InvalidCredentialsRejected ==
    [][(/\ lastCall'.op = "__init__"
        /\ ~Truthy(lastCall'.arg[1]) \/ ~Truthy(lastCall'.arg[2])) =>
           /\ lastCall'.outcome = Raise("ValueError")
           /\ cls' = "none"
           /\ lastCall'.reqs = <<>>
           /\ nrequests' = nrequests]_vars

C6_Witness ==
    /\ lastCall.op = "__init__"
    /\ lastCall.style = "AsyncOpenAPIClient"
    /\ lastCall.arg[1] = PyStr("secret")
    /\ lastCall.arg[2] = PyStr("")
    /\ lastCall.outcome = Raise("ValueError")
    /\ cls = "none"
    /\ nrequests = 0

(***************************************************************************)
(* C7.  The stored proxy is either absent or has both a non-empty host and *)
(* a non-zero port.  Stated as the claim states it; set_proxy stores an    *)
(* incomplete pair unchecked.                                              *)
(***************************************************************************)
C7_StoredProxyComplete ==
    proxy = PyNone \/ (proxy.f.host.v # "" /\ proxy.f.port.v # 0)

(***************************************************************************)
(* C8.  Given a value that is neither a request object nor a mapping,      *)
(* model_to_payload raises the payload type error, and every client        *)
(* operation raises it without issuing an HTTP request.                    *)
(***************************************************************************)
C8_InvalidPayloadType ==
    (/\ lastCall.op \in FacadeOps \cup {"model_to_payload"}
     /\ lastCall.arg.t \notin {"model", "dict"}) =>
        /\ lastCall.outcome = Raise("TypeError")
        /\ lastCall.reqs = <<>>

C8_Witness ==
    /\ lastCall.op = "deploy_mini_app"
    /\ lastCall.arg = PyList(<<>>)
    /\ lastCall.outcome = Raise("TypeError")
    /\ lastCall.reqs = <<>>

(***************************************************************************)
(* C9.  For a request object of AppInfo, AppSlice, DeployApp or            *)
(* PublishApp, the output of model_to_payload has only wire-name keys,     *)
(* has the key and the value of every field that is set, and has no key    *)
(* for an optional field that is unset.                                    *)
(***************************************************************************)
WireNames ==
    {"appName", "appDescription", "appCategory", "appLogoUrl", "browsable",
     "miniAppId", "offset", "limit", "file", "name", "description",
     "versionId"}

\* the wire name of an internal field name
WireNameOf(n) ==
    CASE n = "app_name" -> "appName"
      [] n = "app_description" -> "appDescription"
      [] n = "app_category" -> "appCategory"
      [] n = "app_logo_url" -> "appLogoUrl"
      [] n = "mini_app_id" -> "miniAppId"
      [] n = "version_id" -> "versionId"
      [] OTHER -> n

C9_WireNamesOnly ==
    (/\ lastCall.op = "model_to_payload"
     /\ lastCall.arg.t = "model") =>
        /\ lastCall.outcome.kind = "return"
        /\ LET out == lastCall.outcome.value.v
               f == lastCall.arg.f
           IN /\ DOMAIN out \subseteq WireNames
              /\ \A n \in DOMAIN f :
                    IF f[n] # PyNone
                    THEN /\ WireNameOf(n) \in DOMAIN out
                         /\ out[WireNameOf(n)] = f[n]
                    ELSE WireNameOf(n) \notin DOMAIN out

C9_Witness ==
    /\ lastCall.op = "model_to_payload"
    /\ lastCall.arg.t = "model"
    /\ lastCall.arg.cls = "PublishApp"
    /\ lastCall.arg.f.description = PyNone
    /\ lastCall.outcome =
           Return(PyDict([miniAppId |-> PyStr("123"),
                          versionId |-> PyInt(789)]))

(***************************************************************************)
(* C10.  model_to_payload returns a plain mapping unchanged, so it is      *)
(* idempotent: converting the output of a conversion again changes         *)
(* nothing, and the plain mapping with the wire-name keys and values of a  *)
(* request object converts to the same output as the object.               *)
(***************************************************************************)
C10_PassThroughIdempotent ==
    lastCall.op = "model_to_payload" =>
        /\ lastCall.arg.t = "dict" => lastCall.outcome = Return(lastCall.arg)
        /\ lastCall.outcome.kind = "return" =>
             model_to_payload(lastCall.outcome.value)
                 = Return(lastCall.outcome.value.v)
        /\ \A k \in ModelKwargs :
             lastCall.arg = NewModel(k[1], k[2]) =>
                /\ lastCall.outcome = Return(PyDict(k[2]))
                /\ model_to_payload(PyDict(k[2]))
                       = Return(lastCall.outcome.value.v)

C10_Witness ==
    /\ lastCall.op = "model_to_payload"
    /\ lastCall.arg.t = "model"
    /\ lastCall.arg.cls = "DeployApp"
    /\ lastCall.outcome.kind = "return"
    /\ model_to_payload(lastCall.outcome.value) = Return(lastCall.outcome.value.v)
    /\ model_to_payload(PyDict([miniAppId |-> PyStr("123"), file |-> ZIPDATA,
                                name |-> PyStr("v1"),
                                description |-> PyStr("first")]))
           = Return(lastCall.outcome.value.v)

(***************************************************************************)
(* C11.  encode_deploy_file against its reference, for every payload       *)
(* mapping: without a file field the payload is returned unchanged; a      *)
(* file of raw bytes is replaced by its standard base64 text (b"ZIPDATA"   *)
(* gives "WklQREFUQQ=="); a file that is a string naming no existing file  *)
(* is left unchanged; every field other than file is untouched, in the     *)
(* mapping returned and in the caller's mapping after the call.            *)
(***************************************************************************)
\* the standard base64 text (RFC 4648) of the byte strings of the inputs
Base64Text(b) ==
    CASE b = <<90, 73, 80, 68, 65, 84, 65>> ->
             <<"W", "k", "l", "Q", "R", "E", "F", "U", "Q", "Q", "=", "=">>
      [] b = <<>> -> <<>>
      [] b = <<77>> -> <<"T", "Q", "=", "=">>
      [] b = <<77, 97>> -> <<"T", "W", "E", "=">>
      [] b = <<77, 97, 110>> -> <<"T", "W", "F", "u">>
      [] b = <<255, 254, 253, 0>> -> <<"/", "/", "7", "9", "A", "A", "=", "=">>
      [] b = <<80, 75, 3, 4>> -> <<"U", "E", "s", "D", "B", "A", "=", "=">>

\* the strings that name an existing file
ExistingFileNames == {PyStr("app.zip")}

C11_EncodeMatchesReference ==
    lastCall.op = "encode_deploy_file" =>
        LET p == lastCall.arg.v
            out == lastCall.outcome
            has == "file" \in DOMAIN p
        IN /\ (~has) => out = Return(lastCall.arg)
           /\ (has /\ p["file"].t = "bytes") =>
                 /\ out.kind = "return"
                 /\ out.value.v["file"] = PyText(Base64Text(p["file"].v))
           /\ (has /\ p["file"].t = "str"
                   /\ p["file"] \notin ExistingFileNames) =>
                 out = Return(lastCall.arg)
           /\ (out.kind = "return") =>
                 /\ DOMAIN out.value.v = DOMAIN p
                 /\ \A k \in DOMAIN p \ {"file"} : out.value.v[k] = p[k]
           /\ DOMAIN argAfter.v = DOMAIN p
           /\ \A k \in DOMAIN p \ {"file"} : argAfter.v[k] = p[k]

C11_Witness ==
    /\ lastCall.op = "encode_deploy_file"
    /\ lastCall.arg = PyDict([miniAppId |-> PyStr("123"), file |-> ZIPDATA,
                              name |-> PyStr("v1")])
    /\ lastCall.outcome =
           Return(PyDict([miniAppId |-> PyStr("123"),
                          file |-> PyText(<<"W", "k", "l", "Q", "R", "E", "F",
                                            "U", "Q", "Q", "=", "=">>),
                          name |-> PyStr("v1")]))

(***************************************************************************)
(* C12.  Every request issued by an operation of a constructed client,     *)
(* blocking or non-blocking, carries exactly the four headers X-Api-Key,   *)
(* X-Zalo-AppID, X-Sdk-Version and X-Sdk-Name, with the API key and the    *)
(* app id given at construction ("secret" and "4242", the only pair that   *)
(* constructs a client), so with the same values in every call.            *)
(***************************************************************************)
C12_FixedHeaders ==
    FacadeSent =>
        LET h == lastCall.reqs[1].headers
        IN /\ h.t = "dict"
           /\ DOMAIN h.v = {"X-Api-Key", "X-Zalo-AppID", "X-Sdk-Version",
                            "X-Sdk-Name"}
           /\ h.v["X-Api-Key"] = PyStr("secret")
           /\ h.v["X-Api-Key"] = api_key
           /\ h.v["X-Zalo-AppID"] = PyStr("4242")
           /\ h.v["X-Zalo-AppID"] = zalo_app_id
           /\ h.v["X-Sdk-Version"] = PyStr("__version__")
           /\ h.v["X-Sdk-Name"] = PyStr("Python")

C12_Witness ==
    /\ FacadeSent
    /\ lastCall.op = "publish_mini_app"
    /\ lastCall.style = "async"
    /\ nrequests = 2
    /\ lastCall.reqs[1].headers.v["X-Api-Key"] = PyStr("secret")
    /\ lastCall.reqs[1].headers.v["X-Zalo-AppID"] = PyStr("4242")

(***************************************************************************)
(* Vocabulary of the properties that compare a facade call with a call of  *)
(* a low-level function.                                                   *)
(***************************************************************************)
\* the field of a facade argument, by wire name for a mapping and by
\* field name for a request object; None when absent
FieldOf(arg, wire, name) ==
    IF arg.t = "dict" THEN DictGet(arg.v, wire)
    ELSE IF arg.t = "model" /\ name \in DOMAIN arg.f THEN arg.f[name]
    ELSE PyNone

\* the low-level function of an operation, in either style
LowLevelOf(op) ==
    CASE op = "create_mini_app" -> {"create_app", "async_create_app"}
      [] op = "get_mini_apps" -> {"get_apps", "async_get_apps"}
      [] op = "deploy_mini_app" -> {"deploy_app", "async_deploy_app"}
      [] op = "get_versions_mini_app" ->
             {"get_versions_app", "async_get_versions_app"}
      [] op = "request_publish_mini_app" ->
             {"request_publish", "async_request_publish"}
      [] op = "publish_mini_app" -> {"publish", "async_publish"}
      [] OTHER -> {}

\* f is a facade call and l the call of the corresponding low-level
\* function, on its default domain, with the same app identifier, offset,
\* limit, version identifier, description and data
SameInputs(f, l) ==
    /\ f.op \in FacadeOps
    /\ l.op \in LowLevelOf(f.op)
    /\ l.arg[Len(l.arg)] = DOMAIN_PROD
    /\ LET id == FieldOf(f.arg, "miniAppId", "mini_app_id")
           offset == FieldOf(f.arg, "offset", "offset")
           limit == FieldOf(f.arg, "limit", "limit")
           version == FieldOf(f.arg, "versionId", "version_id")
           description == FieldOf(f.arg, "description", "description")
       IN CASE f.op = "create_mini_app" -> l.arg[1] = f.arg
            [] f.op = "get_mini_apps" ->
                   id = PyNone /\ l.arg[1] = offset /\ l.arg[2] = limit
            [] f.op = "deploy_mini_app" ->
                   id # PyNone /\ l.arg[1] = id /\ l.arg[2] = f.arg
            [] f.op = "get_versions_mini_app" ->
                   /\ id # PyNone /\ l.arg[1] = id
                   /\ l.arg[2] = offset /\ l.arg[3] = limit
            [] f.op = "request_publish_mini_app" ->
                   /\ id # PyNone /\ l.arg[1] = id
                   /\ version # PyNone /\ l.arg[2] = version
                   /\ l.arg[3] = description
            [] f.op = "publish_mini_app" ->
                   /\ id # PyNone /\ l.arg[1] = id
                   /\ version # PyNone /\ l.arg[2] = version

(***************************************************************************)
(* C13.  For the same app identifier, offset, limit, version identifier    *)
(* and data, a low-level function, blocking or non-blocking, issues a      *)
(* request with the same method, the same URL, the same query parameters   *)
(* and the same JSON body as the facade method of the operation.  Stated   *)
(* as the claim states it, over a facade call that issued a request and    *)
(* the call of the low-level function that follows it.                     *)
(***************************************************************************)
C13_LowLevelSameRequest ==
    [][(SameInputs(lastCall, lastCall') /\ Len(lastCall.reqs) = 1) =>
          /\ Len(lastCall'.reqs) = 1
          /\ lastCall'.reqs[1].method = lastCall.reqs[1].method
          /\ lastCall'.reqs[1].url = lastCall.reqs[1].url
          /\ lastCall'.reqs[1].params = lastCall.reqs[1].params
          /\ lastCall'.reqs[1].json = lastCall.reqs[1].json]_vars

(***************************************************************************)
(* Vocabulary of the endpoint table.                                       *)
(***************************************************************************)
\* the operation of the endpoint table that a call performs
EndpointOf(op) ==
    CASE op \in {"create_mini_app", "create_app", "async_create_app"} ->
             "create app"
      [] op \in {"get_mini_apps", "get_apps", "async_get_apps"} ->
             "list apps"
      [] op \in {"deploy_mini_app", "deploy_app", "async_deploy_app"} ->
             "deploy"
      [] op \in {"get_versions_mini_app", "get_versions_app",
                 "async_get_versions_app"} -> "list versions"
      [] op \in {"request_publish_mini_app", "request_publish",
                 "async_request_publish"} -> "request publish"
      [] op \in {"publish_mini_app", "publish", "async_publish"} ->
             "publish"

\* the app identifier of a call: the miniAppId of the argument of a facade
\* method, the mini_app_id argument of a low-level function
AppIdOf(call) ==
    IF call.op \in FacadeOps
    THEN FieldOf(call.arg, "miniAppId", "mini_app_id")
    ELSE call.arg[1]

\* the method of a row of the endpoint table
TableMethod(row) ==
    IF row \in {"list apps", "list versions"} THEN "GET" ELSE "POST"

\* the URL of a row of the endpoint table on a domain, for the app id
TableUrl(domain, row, id) ==
    CASE row \in {"create app", "list apps"} -> <<domain, "/apps">>
      [] row = "deploy" -> <<domain, "/apps", "/", id, "/upload">>
      [] row = "list versions" -> <<domain, "/apps", "/", id, "/versions">>
      [] row = "request publish" ->
             <<domain, "/apps", "/", id, "/request-publish">>
      [] row = "publish" -> <<domain, "/apps", "/", id, "/publish">>

\* the request of the last call is that of the endpoint table on domain
OnEndpoint(domain) ==
    LET row == EndpointOf(lastCall.op)
        id == AppIdOf(lastCall)
        req == lastCall.reqs[1]
    IN /\ req.method = TableMethod(row)
       /\ (row \in {"create app", "list apps"}) =>
              req.url = TableUrl(domain, row, "")
       /\ (row \notin {"create app", "list apps"} /\ id # PyNone) =>
              req.url = TableUrl(domain, row, id.v)

(***************************************************************************)
(* C14.  Each operation issues its request with the method and the path    *)
(* of the endpoint table on the production domain, {id} being the app      *)
(* identifier of the request, in the blocking facade, the non-blocking     *)
(* facade and the low-level functions alike.  Stated as the claim states   *)
(* it; a low-level function sends to the domain it is called with.         *)
(***************************************************************************)
C14_EndpointOnProduction ==
    Sent => OnEndpoint("https://openapi.mini.zalo.me")

(***************************************************************************)
(* C14, amended.  Each operation issues its request with the method and    *)
(* the path of the endpoint table, {id} being the app identifier of the    *)
(* request: the facades on the production domain, a low-level function on  *)
(* its domain argument, which is the production domain by default.         *)
(***************************************************************************)
C14_EndpointOnDomain ==
    Sent =>
        IF lastCall.op \in FacadeOps
        THEN OnEndpoint("https://openapi.mini.zalo.me")
        ELSE OnEndpoint(lastCall.arg[Len(lastCall.arg)])

C14_Witness ==
    /\ Sent
    /\ lastCall.op = "async_request_publish"
    /\ lastCall.arg[Len(lastCall.arg)] = "https://openapi.mini.zalo.me"
    /\ lastCall.reqs[1].method = "POST"
    /\ lastCall.reqs[1].url =
           <<"https://openapi.mini.zalo.me", "/apps", "/", "123",
             "/request-publish">>

(***************************************************************************)
(* C15.  Direct publish ignores the description of a PublishApp request:   *)
(* for every PublishApp value, with or without a description, the request  *)
(* sent by publish (publish_mini_app of both facades, publish and          *)
(* async_publish) carries no description field, and the request sent by    *)
(* request publish carries the description when it is set.  Stated as the  *)
(* claim states it; publish_mini_app sends the whole converted request.    *)
(***************************************************************************)
\* the last call took a PublishApp object, or is a low-level publish call
OfPublishApp ==
    IF lastCall.op \in FacadeOps
    THEN lastCall.arg.t = "model" /\ lastCall.arg.cls = "PublishApp"
    ELSE TRUE

\* the description the caller gave to the last call, None when not given
DescriptionOf(call) ==
    IF call.op \in FacadeOps
    THEN FieldOf(call.arg, "description", "description")
    ELSE IF call.op \in {"request_publish", "async_request_publish"}
    THEN call.arg[3]
    ELSE PyNone

C15_PublishIgnoresDescription ==
    (Sent /\ OfPublishApp) =>
        LET body == lastCall.reqs[1].json
        IN /\ (EndpointOf(lastCall.op) = "publish") =>
                 "description" \notin DOMAIN body.v
           /\ (EndpointOf(lastCall.op) = "request publish"
                   /\ DescriptionOf(lastCall) # PyNone) =>
                 /\ "description" \in DOMAIN body.v
                 /\ body.v["description"] = DescriptionOf(lastCall)

(***************************************************************************)
(* C16.  Every call of an SDK operation that passes the payload checks     *)
(* issues exactly one HTTP request, whatever the response: one request     *)
(* and one response per call, also after an error status or a text         *)
(* fallback, and the outcome of a call is that of the response to its own  *)
(* request, whatever the call before it was and received.  A call that     *)
(* fails a payload check issues none.                                      *)
(***************************************************************************)
\* the failures of a call before its request is issued: a payload of a
\* type that cannot be converted or serialised, a deploy file that cannot
\* be read
PayloadErrors == {Raise("TypeError"), Raise("FileNotFoundError")}

C16_ExactlyOneRequest ==
    [][(lastCall'.op \in FacadeOps \cup LowLevelOps) =>
          IF lastCall'.outcome \in PayloadErrors
          THEN /\ lastCall'.reqs = <<>>
               /\ nrequests' = nrequests
          ELSE /\ Len(lastCall'.reqs) = 1
               /\ Len(lastCall'.resps) = 1
               /\ nrequests' = nrequests + 1
               /\ LET r == lastCall'.resps[1]
                      out == lastCall'.outcome
                  IN /\ (r.status \in {404, 500}) =>
                           (out.kind = "raise" /\ out.status = r.status)
                     /\ (r = [status |-> 200, ctype |-> "application/json",
                              text |-> JSON_OK]) =>
                           out = Return(PyDict([error |-> PyInt(0),
                                                appId |-> PyStr("123"),
                                                appName |-> PyStr("Foo")]))
                     /\ (r = [status |-> 200, ctype |-> "text/plain",
                              text |-> PLAIN_TEXT]
                           /\ lastCall'.style = "sync") =>
                           out = Return(PyStr("plain text"))]_vars

\* a second identical call, answered with an error status this time
C16_Witness ==
    /\ nrequests = 2
    /\ lastCall.op = "get_mini_apps"
    /\ lastCall.arg = NewModel("AppSlice",
                               [offset |-> PyInt(0), limit |-> PyInt(10)])
    /\ Len(lastCall.reqs) = 1
    /\ lastCall.resps[1].status = 500
    /\ lastCall.outcome.kind = "raise"

(***************************************************************************)
(* C17.  No operation of a client facade modifies the request object       *)
(* passed to it: after any call, deploy_mini_app with a DeployApp whose    *)
(* file is bytes or a path included, every field of the caller's AppInfo,  *)
(* AppSlice, DeployApp or PublishApp object, the file reference included,  *)
(* equals its value before the call.                                       *)
(***************************************************************************)
C17_RequestObjectUnmodified ==
    (lastCall.op \in FacadeOps /\ lastCall.arg.t = "model") =>
        /\ argAfter.t = "model"
        /\ argAfter.cls = lastCall.arg.cls
        /\ DOMAIN argAfter.f = DOMAIN lastCall.arg.f
        /\ \A n \in DOMAIN lastCall.arg.f : argAfter.f[n] = lastCall.arg.f[n]

\* a deploy that sent the encoded file of a DeployApp given as a path
C17_Witness ==
    /\ lastCall.op = "deploy_mini_app"
    /\ lastCall.arg.t = "model"
    /\ lastCall.arg.cls = "DeployApp"
    /\ lastCall.arg.f.file = PyPath("app.zip")
    /\ Len(lastCall.reqs) = 1
    /\ lastCall.reqs[1].json.v["file"] =
           PyText(<<"U", "E", "s", "D", "B", "A", "=", "=">>)
    /\ argAfter.f.file = PyPath("app.zip")

(***************************************************************************)
(* C18.  In the non-blocking style each call that issues a request opens   *)
(* exactly one session, issues the request in it and closes it before it   *)
(* returns, on every path: JSON result, text fallback and HTTP error; no   *)
(* call opens more than one session, and no session is open once a call    *)
(* has returned, so none is open during or reused by a later call.         *)
(***************************************************************************)
\* the last call was a call of a non-blocking operation
AsyncCall ==
    /\ lastCall.op \in FacadeOps \cup LowLevelOps
    /\ lastCall.style = "async"

C18_SessionPerCall ==
    /\ openSessions = 0
    /\ AsyncCall =>
          /\ Cardinality({i \in DOMAIN sessionLog : sessionLog[i] = "open"})
                 <= 1
          /\ (sessionLog # <<>>) =>
                 /\ sessionLog[1] = "open"
                 /\ sessionLog[Len(sessionLog)] = "close"
          /\ (Len(lastCall.reqs) = 1) =>
                 sessionLog = <<"open", "request", "close">>

\* a non-blocking call that failed with an HTTP error
C18_Witness ==
    /\ AsyncCall
    /\ lastCall.op = "deploy_mini_app"
    /\ Len(lastCall.reqs) = 1
    /\ lastCall.resps[1].status = 404
    /\ lastCall.outcome.kind = "raise"
    /\ sessionLog = <<"open", "request", "close">>
    /\ openSessions = 0
    /\ nrequests = 2

(***************************************************************************)
(* C19.  In every state of a constructed client, after any sequence of     *)
(* set_proxy calls with a proxy value, cancel_proxy calls and API          *)
(* operations, is_use_proxy is true exactly when the stored proxy is       *)
(* present; an API operation changes neither the flag, the stored proxy,   *)
(* nor the headers.                                                        *)
(***************************************************************************)
C19_FlagMatchesProxy ==
    [][/\ (cls' # "none") => (is_use_proxy' <=> (proxy' # PyNone))
       /\ (lastCall'.op \in FacadeOps \cup LowLevelOps) =>
              /\ is_use_proxy' = is_use_proxy
              /\ proxy' = proxy
              /\ headers' = headers]_vars

\* an operation of a client after a cancel_proxy
C19_Witness ==
    /\ FacadeSent
    /\ cancelled
    /\ ~is_use_proxy
    /\ proxy = PyNone
    /\ nrequests = 2

(***************************************************************************)
(* C20.  encode_deploy_file does not check that a Path file value names a  *)
(* file: for a Path that names none it raises a filesystem error, where    *)
(* for a string that names none it returns the payload unchanged; the      *)
(* file field of the payload keeps its value; and deploy_mini_app, of      *)
(* both facades, ends with that error before it issues a request.          *)
(***************************************************************************)
\* the Path values that name no file
MissingPaths == {PyPath("missing.zip")}

C20_MissingPathRaises ==
    /\ (lastCall.op = "encode_deploy_file"
           /\ "file" \in DOMAIN lastCall.arg.v) =>
          /\ (lastCall.arg.v["file"] \in MissingPaths) =>
                 /\ lastCall.outcome = Raise("FileNotFoundError")
                 /\ argAfter = lastCall.arg
          /\ (lastCall.arg.v["file"] = PyStr("missing.zip")
                 \/ lastCall.arg.v["file"] = PyStr("not-a-real-path.zip")) =>
                 /\ lastCall.outcome = Return(lastCall.arg)
                 /\ argAfter = lastCall.arg
    /\ (lastCall.op = "deploy_mini_app"
           /\ FieldOf(lastCall.arg, "file", "file") \in MissingPaths) =>
          /\ lastCall.outcome = Raise("FileNotFoundError")
          /\ lastCall.reqs = <<>>
          /\ sessionLog = <<>>
          /\ argAfter = lastCall.arg

\* a non-blocking deploy of a DeployApp whose Path names no file, after
\* an operation that issued a request
C20_Witness ==
    /\ lastCall.op = "deploy_mini_app"
    /\ lastCall.style = "async"
    /\ lastCall.arg.t = "model"
    /\ lastCall.arg.cls = "DeployApp"
    /\ lastCall.arg.f.file = PyPath("missing.zip")
    /\ lastCall.outcome = Raise("FileNotFoundError")
    /\ lastCall.reqs = <<>>
    /\ nrequests = 1

(***************************************************************************)
(* C21.  When the app identifier is absent from the request, an AppSlice   *)
(* with no miniAppId or a mapping without the key miniAppId, the facade    *)
(* operations with the identifier in their path (deploy, list versions,    *)
(* request publish, publish), of both facades, do not fail before the      *)
(* network: they issue exactly one request, and its path has the text      *)
(* None in the place of the identifier, as in /apps/None/versions.         *)
(***************************************************************************)
\* the facade operations whose path carries the app identifier
PathOps ==
    {"deploy_mini_app", "get_versions_mini_app", "request_publish_mini_app",
     "publish_mini_app"}

\* the argument is an AppSlice with no miniAppId or a mapping without the
\* key miniAppId
IdAbsent(arg) ==
    \/ /\ arg.t = "model"
       /\ arg.cls = "AppSlice"
       /\ FieldOf(arg, "miniAppId", "mini_app_id") = PyNone
    \/ /\ arg.t = "dict"
       /\ "miniAppId" \notin DOMAIN arg.v

C21_AbsentIdSendsNone ==
    (lastCall.op \in PathOps /\ IdAbsent(lastCall.arg)) =>
        /\ lastCall.outcome \notin PayloadErrors
        /\ Len(lastCall.reqs) = 1
        /\ Len(lastCall.resps) = 1
        /\ lastCall.reqs[1].method = TableMethod(EndpointOf(lastCall.op))
        /\ lastCall.reqs[1].url =
               TableUrl("https://openapi.mini.zalo.me",
                        EndpointOf(lastCall.op), "None")

\* a non-blocking list of the versions of an AppSlice with no miniAppId
C21_Witness ==
    /\ lastCall.op = "get_versions_mini_app"
    /\ lastCall.style = "async"
    /\ lastCall.arg = NewModel("AppSlice",
                               [offset |-> PyInt(0), limit |-> PyInt(10)])
    /\ Len(lastCall.reqs) = 1
    /\ lastCall.reqs[1].url =
           <<"https://openapi.mini.zalo.me", "/apps", "/", "None",
             "/versions">>
    /\ lastCall.resps[1].status = 200

====
